---- MODULE Spec2Model ----
(***************************************************************************)
(* Model of dashboard.py: the risk scoring of the event table, the global  *)
(* filters, the KPI row and the rolling-window alert rule.                  *)
(*                                                                         *)
(* A table is [columns, rows]: rows is a sequence of records whose fields  *)
(* are the columns.  A timestamp is a number of minutes since midnight of  *)
(* day 0, or NaT (what parse_dates gives for an empty cell).               *)
(***************************************************************************)
EXTENDS Integers, Sequences, FiniteSets, TLC

VARIABLES pc, csv, df, loaded, filtered, risk_sel, metrics,
          window_min, threshold, scope, alerts, alert_view

vars == <<pc, csv, df, loaded, filtered, risk_sel, metrics,
          window_min, threshold, scope, alerts, alert_view>>

\* ------------------------------------------------------------------ bounds

\* rows of the filtered table the alert rule is explored on
MaxRows == 3
\* rows of the CSV file the whole script is explored on
MaxCsvRows == 2
\* largest threshold entered in the number input
MaxThreshold == 3
\* largest rolling window chosen on the slider
MaxWindow == 3

\* ------------------------------------------------------- values and inputs

NaT == -1
NaN == -2

EmulatorEvent == "emulator_detected"

\* timestamps of the event log: 05:58, 05:59 and 06:00 of day 0
LogTimestamps == {358, 359, 360}
\* (country, device) of the event log: two devices in one country, one in another
LogPlacements == {<<"USA", "A">>, <<"USA", "B">>, <<"France", "C">>}

\* the event log's rows: an emulator_detected event at every timestamp and
\* placement, and a root_detected event at 05:58 at every placement
LogRows ==
    {[timestamp |-> t, event |-> "emulator_detected", country |-> p[1], device |-> p[2]] :
        t \in LogTimestamps, p \in LogPlacements}
    \cup
    {[timestamp |-> 358, event |-> "root_detected", country |-> p[1], device |-> p[2]] :
        p \in LogPlacements}

\* inputs of the scoring function: every table event, one unknown event,
\* both high-risk countries, two others, every hour of the day at its first
\* and last minute, and a missing timestamp
ScoreEvents == {"root_detected", "hooking_attempt", "emulator_detected",
                "debugger_attached", "app_tampered"}
ScoreCountries == {"USA", "Germany", "France", ""}
ScoreTimestamps == {h * 60 + m : h \in 0..23, m \in {0, 59}} \cup {NaT}

ScoreRows ==
    {[timestamp |-> t, event |-> e, country |-> c, device |-> "A"] :
        t \in ScoreTimestamps, e \in ScoreEvents, c \in ScoreCountries}

\* every key a group can have, in the order groupby and sorted() give
SortedKeys == <<"", "A", "B", "C", "France", "Germany", "USA">>

SeqsUpTo(S, n) == UNION {[1..k -> S] : k \in 0..n}
NonEmptySeqsUpTo(S, n) == UNION {[1..k -> S] : k \in 1..n}

\* ------------------------------------------------------------- load_data

CsvColumns == {"timestamp", "event", "country", "device"}

DateOf(timestamp) == IF timestamp = NaT THEN NaT ELSE timestamp \div 1440

\* read_csv, then df["date"] = df["timestamp"].dt.date
load_data(file) ==
    [columns |-> CsvColumns \cup {"date"},
     rows |-> [i \in DOMAIN file |-> ("date" :> DateOf(file[i].timestamp)) @@ file[i]]]

\* ---------------------------------------------------------- risk scoring

DefaultBaseScore == 10
CountryBonus == 10
OffHoursBonus == 5
ScoreCap == 100

BaseScoreDefaultZero(event) ==
    CASE event = "root_detected" -> 30
      [] event = "hooking_attempt" -> 25
      [] event = "emulator_detected" -> 20
      [] event = "debugger_attached" -> 15
      [] OTHER -> 0

BaseScore(event) ==
    CASE event = "root_detected" -> 30
      [] event = "hooking_attempt" -> 25
      [] event = "emulator_detected" -> 20
      [] event = "debugger_attached" -> 15
      [] OTHER -> DefaultBaseScore

HighRiskCountries == {"USA", "Germany"}

HourOf(timestamp) == IF timestamp = NaT THEN NaN ELSE (timestamp \div 60) % 24

\* a comparison with NaN is false
IsOffHoursInclusive(hour) == hour # NaN /\ (hour <= 6 \/ hour >= 22)

IsOffHours(hour) == hour # NaN /\ (hour < 6 \/ hour > 22)

Min(a, b) == IF a < b THEN a ELSE b

CountryAdjustmentLarge(country) ==
    IF country \in HighRiskCountries THEN 3 * CountryBonus ELSE 0

CountryAdjustment(country) ==
    IF country \in HighRiskCountries THEN CountryBonus ELSE 0

calculate_risk_score(event, country, timestamp) ==
    Min(BaseScore(event) + CountryAdjustment(country)
          + (IF IsOffHours(HourOf(timestamp)) THEN OffHoursBonus ELSE 0),
        ScoreCap)

get_risk_level_exclusive(score) ==
    IF score > 76 THEN "Critical"
    ELSE IF score > 51 THEN "High"
    ELSE IF score > 26 THEN "Medium"
    ELSE "Low"

get_risk_level(score) ==
    IF score >= 76 THEN "Critical"
    ELSE IF score >= 51 THEN "High"
    ELSE IF score >= 26 THEN "Medium"
    ELSE "Low"

\* df["risk_score"] = df.apply(...): the column is added to the table itself
WithRiskScore(table) ==
    [columns |-> table.columns \cup {"risk_score"},
     rows |-> [i \in DOMAIN table.rows |->
                  ("risk_score" :> calculate_risk_score(table.rows[i].event,
                                                        table.rows[i].country,
                                                        table.rows[i].timestamp))
                      @@ table.rows[i]]]

WithRiskLevel(table) ==
    [columns |-> table.columns \cup {"risk_level"},
     rows |-> [i \in DOMAIN table.rows |->
                  ("risk_level" :> get_risk_level(table.rows[i].risk_score))
                      @@ table.rows[i]]]

\* -------------------------------------------------------- global filters

Unique(table, column) == {table.rows[i][column] : i \in DOMAIN table.rows}

\* a comparison with NaT is false
InDateRange(date, start, end) == date # NaT /\ date >= start /\ date <= end

FilterDate(table, date_range) ==
    IF Len(date_range) = 2
    THEN [columns |-> table.columns,
          rows |-> SelectSeq(table.rows,
                             LAMBDA row : InDateRange(row.date, date_range[1],
                                                      date_range[2]))]
    ELSE table

FilterIsin(table, column, selected) ==
    IF selected # {}
    THEN [columns |-> table.columns,
          rows |-> SelectSeq(table.rows, LAMBDA row : row[column] \in selected)]
    ELSE table

\* the optional per-app filters are not shown: the table has none of their columns
apply_global_filters(table, date_range, event_sel, country_sel, level_sel) ==
    FilterIsin(
        FilterIsin(
            FilterIsin(FilterDate(table, date_range), "event", event_sel),
            "country", country_sel),
        "risk_level", level_sel)

\* what the date input can return: one date while a range is being picked,
\* or a pair start <= end among the dates of the table and the day after
DateChoices(table) ==
    LET days == (Unique(table, "date") \ {NaT}) \cup
                {d + 1 : d \in Unique(table, "date") \ {NaT}}
    IN  {<<d>> : d \in days} \cup
        {range \in days \X days : range[1] <= range[2]}

SetMin(S) == CHOOSE x \in S : \A y \in S : x <= y
SetMax(S) == CHOOSE x \in S : \A y \in S : x >= y

\* the date input's default value: (min_date, max_date)
DefaultDateRange(table) ==
    <<SetMin(Unique(table, "date")), SetMax(Unique(table, "date"))>>

DfAfterFilterInPlace(table, view) == view

\* filtered = df.copy(): the boolean indexing works on the copy
DfAfterFilter(table, view) == table

\* ---------------------------------------------------------------- KPI row

kpi_row(view) ==
    [total_events |-> Len(view.rows),
     critical_risk |-> Cardinality({i \in DOMAIN view.rows :
                                       view.rows[i].risk_level = "Critical"}),
     unique_devices |-> Cardinality(Unique(view, "device"))]

\* -------------------------------------------------------------- alert rule

WindowSliderMin == 1
WindowSliderMax == 30
ThresholdMin == 1

\* the slider's values up to MaxWindow (the log spans three minutes, so the
\* windows from 3 minutes on count alike)
Windows == {w \in WindowSliderMin..WindowSliderMax : w <= MaxWindow}
Thresholds == ThresholdMin..MaxThreshold
Scopes == {"Per country", "Per device"}

RECURSIVE InsertByTimestamp(_, _)
InsertByTimestamp(row, sorted) ==
    IF sorted = <<>> THEN <<row>>
    ELSE IF row.timestamp < Head(sorted).timestamp THEN <<row>> \o sorted
    ELSE <<Head(sorted)>> \o InsertByTimestamp(row, Tail(sorted))

\* sort_values("timestamp"): ascending; rows of one timestamp keep their order
RECURSIVE SortByTimestamp(_)
SortByTimestamp(rows) ==
    IF rows = <<>> THEN <<>>
    ELSE InsertByTimestamp(rows[Len(rows)], SortByTimestamp(SubSeq(rows, 1, Len(rows) - 1)))

EmulatorRows(view) == SelectSeq(view.rows, LAMBDA row : row.event = EmulatorEvent)

GroupKey(chosen_scope) == IF chosen_scope = "Per country" THEN "country" ELSE "device"

\* the keys of base.groupby(group_key), in sorted order
GroupKeys(base, group_key) ==
    SelectSeq(SortedKeys, LAMBDA key : \E i \in DOMAIN base : base[i][group_key] = key)

GroupOf(base, group_key, key) == SelectSeq(base, LAMBDA row : row[group_key] = key)

RollingCountClosedLeft(g, i, window) ==
    Cardinality({j \in 1..i : g[j].timestamp >= g[i].timestamp - window})

RollingCountWholeInstant(g, i, window) ==
    Cardinality({j \in DOMAIN g : g[j].timestamp > g[i].timestamp - window
                                   /\ g[j].timestamp <= g[i].timestamp})

\* g["event"].rolling(f"{window}min").count() at row i of the sorted group:
\* the rows up to and including row i whose timestamp is later than
\* timestamp(i) - window
RollingCount(g, i, window) ==
    Cardinality({j \in 1..i : g[j].timestamp > g[i].timestamp - window})

IsHitStrict(count, limit) == count > limit

IsHit(count, limit) == count >= limit

\* hits.index: the timestamps of the rows whose count reaches the threshold
HitTimes(g, window, limit) ==
    LET idx == SelectSeq([i \in DOMAIN g |-> i],
                         LAMBDA i : IsHit(RollingCount(g, i, window), limit))
    IN  [n \in DOMAIN idx |-> g[idx[n]].timestamp]

Alert(t, group_key, key, window, limit) ==
    ("time" :> t) @@ ("scope" :> group_key) @@ (group_key :> key)
        @@ ("rule" :> [threshold |-> limit, window_min |-> window])

RECURSIVE AlertsOfGroups(_, _, _, _, _)
AlertsOfGroups(keys, base, group_key, window, limit) ==
    IF keys = <<>> THEN <<>>
    ELSE LET times == HitTimes(GroupOf(base, group_key, Head(keys)), window, limit)
         IN  [n \in DOMAIN times |-> Alert(times[n], group_key, Head(keys), window, limit)]
             \o AlertsOfGroups(Tail(keys), base, group_key, window, limit)

SkipsGroupingAlways(base) == FALSE

\* base.empty
SkipsGrouping(base) == base = <<>>

alert_rule(view, window, limit, chosen_scope) ==
    LET base == EmulatorRows(view) IN
    IF SkipsGrouping(base)
    THEN [alerts |-> <<>>, view |-> "info"]
    ELSE LET sorted == SortByTimestamp(base)
             group_key == GroupKey(chosen_scope)
             found == AlertsOfGroups(GroupKeys(sorted, group_key), sorted,
                                     group_key, window, limit)
         IN  [alerts |-> found,
              view |-> IF found # <<>> THEN "error" ELSE "success"]

\* ------------------------------------------------------------- the script

EmptyTable == [columns |-> {}, rows |-> <<>>]
NoMetrics == [total_events |-> 0, critical_risk |-> 0, unique_devices |-> 0]

Fresh ==
    /\ df = EmptyTable
    /\ loaded = EmptyTable
    /\ filtered = EmptyTable
    /\ risk_sel = {}
    /\ metrics = NoMetrics
    /\ window_min = 0
    /\ threshold = 0
    /\ scope = "none"
    /\ alerts = <<>>
    /\ alert_view = "none"

Init ==
    /\ pc = "load"
    /\ csv \in NonEmptySeqsUpTo(LogRows, MaxCsvRows)
    /\ Fresh

LoadData ==
    /\ pc = "load"
    /\ df' = load_data(csv)
    /\ loaded' = load_data(csv)
    /\ pc' = "score"
    /\ UNCHANGED <<csv, filtered, risk_sel, metrics, window_min, threshold, scope,
                   alerts, alert_view>>

AssignRiskScore ==
    /\ pc = "score"
    /\ df' = WithRiskScore(df)
    /\ pc' = "level"
    /\ UNCHANGED <<csv, loaded, filtered, risk_sel, metrics, window_min, threshold,
                   scope, alerts, alert_view>>

AssignRiskLevel ==
    /\ pc = "level"
    /\ df' = WithRiskLevel(df)
    /\ pc' = "filter"
    /\ UNCHANGED <<csv, loaded, filtered, risk_sel, metrics, window_min, threshold,
                   scope, alerts, alert_view>>

ApplyFilters ==
    /\ pc = "filter"
    /\ \E date_range \in DateChoices(df),
          event_sel \in SUBSET Unique(df, "event"),
          country_sel \in SUBSET Unique(df, "country"),
          level_sel \in SUBSET Unique(df, "risk_level") :
            /\ filtered' = apply_global_filters(df, date_range, event_sel,
                                                country_sel, level_sel)
            /\ risk_sel' = level_sel
            /\ df' = DfAfterFilter(df, filtered')
    /\ pc' = "metrics"
    /\ UNCHANGED <<csv, loaded, metrics, window_min, threshold, scope, alerts,
                   alert_view>>

Metrics ==
    /\ pc = "metrics"
    /\ metrics' = kpi_row(filtered)
    /\ pc' = "alert"
    /\ UNCHANGED <<csv, df, loaded, filtered, risk_sel, window_min, threshold, scope,
                   alerts, alert_view>>

AlertRule ==
    /\ pc = "alert"
    /\ \E w \in Windows, n \in Thresholds, s \in Scopes :
          LET out == alert_rule(filtered, w, n, s) IN
            /\ window_min' = w
            /\ threshold' = n
            /\ scope' = s
            /\ alerts' = out.alerts
            /\ alert_view' = out.view
    /\ pc' = "done"
    /\ UNCHANGED <<csv, df, loaded, filtered, risk_sel, metrics>>

\* a widget interaction reruns the script from the top
Rerun ==
    /\ pc = "done"
    /\ pc' = "load"
    /\ df' = EmptyTable
    /\ loaded' = EmptyTable
    /\ filtered' = EmptyTable
    /\ risk_sel' = {}
    /\ metrics' = NoMetrics
    /\ window_min' = 0
    /\ threshold' = 0
    /\ scope' = "none"
    /\ alerts' = <<>>
    /\ alert_view' = "none"
    /\ UNCHANGED csv

Next ==
    \/ LoadData
    \/ AssignRiskScore
    \/ AssignRiskLevel
    \/ ApplyFilters
    \/ Metrics
    \/ AlertRule
    \/ Rerun

Spec == Init /\ [][Next]_vars

\* ------------------------------------------- the scoring of one event row
\* The two scoring statements on a table of one row drawn from ScoreRows.

Scored(file) == WithRiskLevel(WithRiskScore(load_data(file)))

InitScore ==
    /\ pc = "score"
    /\ \E row \in ScoreRows : csv = <<row>>
    /\ df = load_data(csv)
    /\ loaded = load_data(csv)
    /\ filtered = EmptyTable
    /\ risk_sel = {}
    /\ metrics = NoMetrics
    /\ window_min = 0
    /\ threshold = 0
    /\ scope = "none"
    /\ alerts = <<>>
    /\ alert_view = "none"

NextScore == AssignRiskScore \/ AssignRiskLevel

SpecScore == InitScore /\ [][NextScore]_vars

\* ------------------------------------------ levels and the risk-level filter
\* get_risk_level and the risk-level filter on a table of two rows whose
\* scores are drawn from 0..ScoreCap, the other widgets left at their defaults.

LevelFile ==
    <<[timestamp |-> 360, event |-> "emulator_detected", country |-> "USA", device |-> "A"],
      [timestamp |-> 360, event |-> "emulator_detected", country |-> "USA", device |-> "B"]>>

WithGivenScores(table, scores) ==
    [columns |-> table.columns \cup {"risk_score"},
     rows |-> [i \in DOMAIN table.rows |-> ("risk_score" :> scores[i]) @@ table.rows[i]]]

InitLevel ==
    /\ pc = "level"
    /\ csv = LevelFile
    /\ loaded = load_data(csv)
    /\ \E scores \in [DOMAIN LevelFile -> 0..ScoreCap] :
          df = WithGivenScores(load_data(csv), scores)
    /\ filtered = EmptyTable
    /\ risk_sel = {}
    /\ metrics = NoMetrics
    /\ window_min = 0
    /\ threshold = 0
    /\ scope = "none"
    /\ alerts = <<>>
    /\ alert_view = "none"

FilterByRiskLevel ==
    /\ pc = "filter"
    /\ \E level_sel \in SUBSET Unique(df, "risk_level") :
            /\ filtered' = apply_global_filters(df, DefaultDateRange(df), {}, {}, level_sel)
            /\ risk_sel' = level_sel
            /\ df' = DfAfterFilter(df, filtered')
    /\ pc' = "metrics"
    /\ UNCHANGED <<csv, loaded, metrics, window_min, threshold, scope, alerts,
                   alert_view>>

NextLevel == AssignRiskLevel \/ FilterByRiskLevel \/ Metrics

SpecLevel == InitLevel /\ [][NextLevel]_vars

\* ----------------------------------------------------- the alert rule alone
\* The alert rule on every filtered table of at most MaxRows scored rows.

InitAlert ==
    /\ pc = "alert"
    /\ csv \in SeqsUpTo(LogRows, MaxRows)
    /\ loaded = load_data(csv)
    /\ df = Scored(csv)
    /\ filtered = Scored(csv)
    /\ risk_sel = {}
    /\ metrics = kpi_row(filtered)
    /\ window_min = 0
    /\ threshold = 0
    /\ scope = "none"
    /\ alerts = <<>>
    /\ alert_view = "none"

NextAlert == AlertRule

SpecAlert == InitAlert /\ [][NextAlert]_vars

\* ================================================================ properties

\* what the properties read off a state
KeyColumn == IF scope = "Per country" THEN "country" ELSE "device"
AlertRuleRan == pc = "done"
IsScored == "risk_score" \in df.columns
IsLevelled == "risk_level" \in df.columns

\* the emulator_detected rows of the filtered table
EmulatorIdx ==
    {i \in DOMAIN filtered.rows : filtered.rows[i].event = "emulator_detected"}

TimeOf(i) == filtered.rows[i].timestamp
KeyOf(i) == filtered.rows[i][KeyColumn]

\* the alerts emitted at time t for group k
AlertsAt(t, k) ==
    Cardinality({n \in DOMAIN alerts : alerts[n].time = t /\ alerts[n][KeyColumn] = k})

AlertsOfKey(k) == Cardinality({n \in DOMAIN alerts : alerts[n][KeyColumn] = k})

\* the emulator_detected events of group k at time t
EventsAt(t, k) == Cardinality({i \in EmulatorIdx : KeyOf(i) = k /\ TimeOf(i) = t})

\* the emulator_detected events of group k with timestamp in (lo, hi]
EventsIn(k, lo, hi) ==
    Cardinality({i \in EmulatorIdx : KeyOf(i) = k /\ TimeOf(i) > lo /\ TimeOf(i) <= hi})

EventsOfKey(k) == Cardinality({i \in EmulatorIdx : KeyOf(i) = k})

\* C1 as stated: for every event, the alerts at its timestamp t for its group
\* are one per event of that instant when the group has at least `threshold`
\* events with timestamp in (t - window, t], and none otherwise.
C1_AlertIffWindowCount ==
    AlertRuleRan =>
        \A i \in EmulatorIdx :
            AlertsAt(TimeOf(i), KeyOf(i)) =
                IF EventsIn(KeyOf(i), TimeOf(i) - window_min, TimeOf(i)) >= threshold
                THEN EventsAt(TimeOf(i), KeyOf(i))
                ELSE 0

\* C1 as amended: an event is counted with the events of its group in
\* (t - window, t) and the events of its own instant up to and including
\* itself in sorted order, so of m events at t after e earlier ones in the
\* window, those at positions j with e + j >= threshold alert, one alert each;
\* every alert is at the timestamp and key of an emulator_detected event.
C1_AlertIffCountUpToEvent ==
    AlertRuleRan =>
        /\ \A n \in DOMAIN alerts :
              /\ alerts[n].scope = KeyColumn
              /\ \E i \in EmulatorIdx :
                    alerts[n].time = TimeOf(i) /\ alerts[n][KeyColumn] = KeyOf(i)
        /\ \A i \in EmulatorIdx :
              LET earlier == EventsIn(KeyOf(i), TimeOf(i) - window_min, TimeOf(i) - 1)
                  same == EventsAt(TimeOf(i), KeyOf(i))
              IN  AlertsAt(TimeOf(i), KeyOf(i)) =
                      Cardinality({j \in 1..same : earlier + j >= threshold})

\* C1 witness: a sustained burst, one group alerting at two timestamps under
\* a threshold above 1.
C1_SustainedBurstAlertsTwice ==
    /\ AlertRuleRan
    /\ threshold >= 2
    /\ \E i \in EmulatorIdx, j \in EmulatorIdx :
          /\ KeyOf(i) = KeyOf(j)
          /\ TimeOf(i) # TimeOf(j)
          /\ AlertsAt(TimeOf(i), KeyOf(i)) >= 1
          /\ AlertsAt(TimeOf(j), KeyOf(j)) >= 1

\* C2: a burst of N events of one group at one instant, with no other event
\* of the group in the window and threshold N, gives exactly one alert at
\* that instant (and one alert in all when the group is the burst alone).
C2_BurstAtOneInstantAlertsOnce ==
    AlertRuleRan =>
        \A i \in EmulatorIdx :
            LET burst == EventsAt(TimeOf(i), KeyOf(i)) IN
            (/\ threshold = burst
             /\ EventsIn(KeyOf(i), TimeOf(i) - window_min, TimeOf(i)) = burst)
            => /\ AlertsAt(TimeOf(i), KeyOf(i)) = 1
               /\ EventsOfKey(KeyOf(i)) = burst => AlertsOfKey(KeyOf(i)) = 1

\* C2 witness: the rule ran on a burst of two or more events at one instant
\* with the threshold equal to the burst's size.
C2_BurstSeen ==
    /\ AlertRuleRan
    /\ threshold >= 2
    /\ \E i \in EmulatorIdx :
          /\ EventsAt(TimeOf(i), KeyOf(i)) = threshold
          /\ EventsIn(KeyOf(i), TimeOf(i) - window_min, TimeOf(i)) = threshold

\* the base score of C3, from the claim's table
ClaimedBase(event) ==
    CASE event = "root_detected" -> 30
      [] event = "hooking_attempt" -> 25
      [] event = "emulator_detected" -> 20
      [] event = "debugger_attached" -> 15
      [] OTHER -> 10

ClaimedCountry(country) == IF country \in {"USA", "Germany"} THEN 10 ELSE 0

\* C3: for every event, country and hour 0..23 the score is the base score
\* + 10 for USA or Germany + 5 when hour < 6 or hour > 22, capped at 100;
\* hours 6 and 22 get no off-hours bonus, hours 5 and 23 do.
C3_ScoreIsBasePlusBonuses ==
    IsScored =>
        \A i \in DOMAIN df.rows :
            LET row == df.rows[i]
                hour == (row.timestamp \div 60) % 24
                plain == ClaimedBase(row.event) + ClaimedCountry(row.country)
                total == plain + (IF hour < 6 \/ hour > 22 THEN 5 ELSE 0)
            IN  row.timestamp # NaT =>
                  /\ hour \in 0..23
                  /\ row.risk_score = (IF total > 100 THEN 100 ELSE total)
                  /\ hour \in {6, 22} => row.risk_score = plain
                  /\ hour \in {5, 23} => row.risk_score = plain + 5

\* C3 witness: a scored hooking_attempt from Germany at 23:00 with both bonuses.
C3_BothBonusesScored ==
    /\ IsScored
    /\ \E i \in DOMAIN df.rows :
          /\ df.rows[i].event = "hooking_attempt"
          /\ df.rows[i].country = "Germany"
          /\ df.rows[i].timestamp = 23 * 60
          /\ df.rows[i].risk_score = 40

\* the score range of a level, from the claim's table
ClaimedRange(level) ==
    CASE level = "Low" -> 0..25
      [] level = "Medium" -> 26..50
      [] level = "High" -> 51..75
      [] level = "Critical" -> 76..100

\* C4: every score 0..100 has exactly the level whose inclusive range holds
\* it, and filtering by risk levels keeps exactly the rows whose score lies
\* in the range of a selected level.
C4_LevelBoundariesAndFilter ==
    /\ IsLevelled =>
          \A i \in DOMAIN df.rows :
              \A level \in {"Low", "Medium", "High", "Critical"} :
                  df.rows[i].risk_level = level
                      <=> df.rows[i].risk_score \in ClaimedRange(level)
    /\ (pc \in {"metrics", "alert"} /\ risk_sel # {}) =>
          filtered.rows =
              SelectSeq(df.rows,
                        LAMBDA row : \E level \in risk_sel :
                                        row.risk_score \in ClaimedRange(level))

\* C4 witness: scores 25 and 26 filtered by Medium keep the second row only.
C4_BoundaryRowsFiltered ==
    /\ pc = "metrics"
    /\ risk_sel = {"Medium"}
    /\ df.rows[1].risk_score = 25
    /\ df.rows[2].risk_score = 26
    /\ Len(filtered.rows) = 1
    /\ filtered.rows[1].device = "B"

\* C5: every risk_score written to the table is an integer in 10..100.
C5_ScoreWithinBounds ==
    IsScored => \A i \in DOMAIN df.rows : df.rows[i].risk_score \in 10..100

\* C5 witness: an unknown event with no bonus is scored the minimum, 10.
C5_MinimumScored ==
    /\ IsScored
    /\ \E i \in DOMAIN df.rows :
          /\ df.rows[i].event = "app_tampered"
          /\ df.rows[i].country = ""
          /\ df.rows[i].risk_score = 10

\* C6: with threshold 1 there is exactly one alert per emulator_detected
\* event, at the event's timestamp and group key.
C6_ThresholdOneAlertsEveryEvent ==
    (AlertRuleRan /\ threshold = 1) =>
        /\ Len(alerts) = Cardinality(EmulatorIdx)
        /\ \A n \in DOMAIN alerts : alerts[n].scope = KeyColumn
        /\ \A i \in EmulatorIdx :
              AlertsAt(TimeOf(i), KeyOf(i)) = EventsAt(TimeOf(i), KeyOf(i))

\* C6 witness: threshold 1 on two or more events further apart than the window.
C6_ThresholdOneSeen ==
    /\ AlertRuleRan
    /\ threshold = 1
    /\ window_min = 1
    /\ \E i \in EmulatorIdx, j \in EmulatorIdx :
          KeyOf(i) = KeyOf(j) /\ TimeOf(j) - TimeOf(i) >= 2
    /\ Len(alerts) >= 2

\* C7: with no emulator_detected event in the filtered table (the table
\* empty or not) the rule emits no alert and shows the 'no data' message.
C7_NoEmulatorEventsNoAlert ==
    (AlertRuleRan /\ EmulatorIdx = {}) => (alerts = <<>> /\ alert_view = "info")

\* C7 witness: the rule ran on a table holding other events only.
C7_OnlyOtherEventsSeen ==
    /\ AlertRuleRan
    /\ EmulatorIdx = {}
    /\ filtered.rows # <<>>
    /\ alert_view = "info"

\* C8: a row with a missing timestamp gets no score (it is reported as a
\* per-row error instead).
C8_MalformedRowNotScored ==
    IsScored =>
        \A i \in DOMAIN df.rows :
            df.rows[i].timestamp = NaT => "risk_score" \notin DOMAIN df.rows[i]

\* C9 as stated: once loaded, the table has the rows and columns it was
\* loaded with.
C9_LoadedTableNeverChanges ==
    pc # "load" => df = loaded

\* C9 as amended: scoring adds the risk_score and risk_level columns to the
\* loaded table in place; its rows and the values of the columns it was loaded
\* with never change, and filtering and alert detection leave it alone.
C9_ScoringOnlyAddsColumns ==
    pc # "load" =>
        /\ Len(df.rows) = Len(loaded.rows)
        /\ df.columns \ loaded.columns =
              (IF pc = "score" THEN {}
               ELSE IF pc = "level" THEN {"risk_score"}
               ELSE {"risk_score", "risk_level"})
        /\ loaded.columns \subseteq df.columns
        /\ \A i \in DOMAIN df.rows :
              /\ DOMAIN df.rows[i] = df.columns
              /\ \A column \in loaded.columns : df.rows[i][column] = loaded.rows[i][column]

\* C9 witness: a run in which the filters dropped rows and the rule alerted.
C9_FilteredAndAlerted ==
    /\ pc = "done"
    /\ Len(filtered.rows) < Len(df.rows)
    /\ alerts # <<>>

\* C10: every score is at most 45, below the cap, every level is Low or
\* Medium, and the Critical Risk metric is 0.
C10_NeverHighOrCritical ==
    /\ IsScored =>
          \A i \in DOMAIN df.rows :
              df.rows[i].risk_score <= 45 /\ df.rows[i].risk_score < ScoreCap
    /\ IsLevelled =>
          \A i \in DOMAIN df.rows : df.rows[i].risk_level \in {"Low", "Medium"}
    /\ pc \in {"alert", "done"} => metrics.critical_risk = 0

\* C10 witness: a run whose filtered table holds an event scored 45.
C10_HighestScoreSeen ==
    /\ pc = "done"
    /\ metrics.total_events >= 1
    /\ \E i \in DOMAIN filtered.rows : filtered.rows[i].risk_score = 45

====
